---- MODULE Spec2Model ----
(***************************************************************************)
(* A model of the PostEra Manifold client (src/manifold): the batching     *)
(* utility, the response parsers, and the single and batched API wrappers  *)
(* with their response classification.                                     *)
(*                                                                         *)
(* JSON objects (python dicts) are functions whose DOMAIN is the set of    *)
(* keys that are present.  A scalar None/null is the string None; a None   *)
(* in a position that otherwise holds a dict or a record is NoneRec.       *)
(* An exception leaving a call is recorded by its class name in `raised`   *)
(* and its argument in `message`.                                          *)
(***************************************************************************)
EXTENDS Integers, Sequences, FiniteSets, TLC

VARIABLES
    pc,          \* position of the running call
    raised,      \* class of the exception that left the call, or NoExc
    message,     \* argument of that exception
    values,      \* make_batches: argument `values`
    batch_size,  \* make_batches: argument `batch_size`
    batches,     \* make_batches: the returned list
    sa_entry,    \* parse_synthetic_accessibility: argument
    sa_result,   \* parse_synthetic_accessibility: the returned record
    items,       \* _parse_catalog_entries: argument `values`
    entries,     \* _parse_catalog_entries: the returned list
    kind,        \* the wrapper class being constructed
    smiles,      \* batched wrappers: the input list (self._smiles)
    response,    \* single wrappers: the response of requests.post
    responses,   \* batched wrappers: the responses received so far
    sent,        \* batched wrappers: the batches handed to requests.post
    parsed,      \* batched wrappers: number of responses classified so far
    results,     \* self._results
    floats       \* the value returned by as_floats()

vars == <<pc, raised, message, values, batch_size, batches, sa_entry, sa_result,
          items, entries, kind, smiles, response, responses, sent, parsed,
          results, floats>>

----------------------------------------------------------------------------
\* Bounds of the model

MaxLen == 4
MaxBatchSize == 3
MaxItems == 2
MaxBatches == 3

----------------------------------------------------------------------------
\* Python values

None == "None"
NoneRec == [None |-> TRUE]
NoExc == "none"
Unused == "unused"
EmptyDict == [k \in {} |-> None]

Min(a, b) == IF a < b THEN a ELSE b

\* All sequences over S of length at most n
SeqsUpTo(S, n) == UNION {[1..m -> S] : m \in 0..n}

\* s[lo:hi] for 0 <= lo <= hi: python clips the slice at len(s)
PySlice(s, lo, hi) == SubSeq(s, lo + 1, Min(hi, Len(s)))

\* range(0, stop, step) for stop >= 0 and step # 0, as the sequence it yields
PyRange(stop, step) ==
    IF step > 0
    THEN [n \in 1..((stop + step - 1) \div step) |-> (n - 1) * step]
    ELSE << >>

\* d.get(key, default)
Get(d, key, default) == IF key \in DOMAIN d THEN d[key] ELSE default

RECURSIVE Flatten(_)
Flatten(ss) == IF ss = << >> THEN << >> ELSE Head(ss) \o Flatten(Tail(ss))

----------------------------------------------------------------------------
\* manifold.py: make_batches

\* a slip in the slice bound: values[i:i + batch_size - 1]
make_batches_short(vals, size) ==
    IF size = 0
    THEN [raised |-> "ValueError", batches |-> << >>]
    ELSE LET r == PyRange(Len(vals), size)
         IN  [raised |-> NoExc,
              batches |-> [n \in 1..Len(r) |-> PySlice(vals, r[n], r[n] + size - 1)]]

\* range() raises ValueError for a zero step and is empty for a negative one
make_batches(vals, size) ==
    IF size = 0
    THEN [raised |-> "ValueError", batches |-> << >>]
    ELSE LET r == PyRange(Len(vals), size)
         IN  [raised |-> NoExc,
              batches |-> [n \in 1..Len(r) |-> PySlice(vals, r[n], r[n] + size)]]

Smiles == {"C", "CC", "CCO"}

InitBatcher ==
    /\ pc = "start"
    /\ values \in SeqsUpTo(Smiles, MaxLen)
    /\ batch_size \in (0 - MaxBatchSize)..MaxBatchSize
    /\ batches = << >>
    /\ raised = NoExc
    /\ message = Unused
    /\ sa_entry = Unused /\ sa_result = Unused
    /\ items = Unused /\ entries = Unused
    /\ kind = "make_batches"
    /\ smiles = Unused /\ response = Unused /\ responses = Unused
    /\ sent = Unused /\ parsed = Unused /\ results = Unused /\ floats = Unused

CallMakeBatches ==
    /\ pc = "start"
    /\ kind = "make_batches"
    /\ LET r == make_batches(values, batch_size)
       IN  /\ raised' = r.raised
           /\ batches' = r.batches
    /\ pc' = "done"
    /\ UNCHANGED <<message, values, batch_size, sa_entry, sa_result, items, entries,
                   kind, smiles, response, responses, sent, parsed, results, floats>>

NextBatcher == CallMakeBatches

SpecBatcher == InitBatcher /\ [][NextBatcher]_vars

\* C1: for a positive batch_size make_batches returns, the batches concatenate
\* to `values`, there are ceil(len(values)/batch_size) of them, all of length
\* batch_size but the last, which holds between 1 and batch_size elements.
C1_BatchesPartitionValues ==
    (pc = "done" /\ kind = "make_batches" /\ batch_size > 0) =>
        /\ raised = NoExc
        /\ Flatten(batches) = values
        /\ Len(batches) * batch_size >= Len(values)
        /\ (Len(batches) - 1) * batch_size < Len(values)
        /\ (Len(values) = 0 => batches = << >>)
        /\ \A n \in 1..Len(batches) :
              /\ n < Len(batches) => Len(batches[n]) = batch_size
              /\ Len(batches[n]) >= 1
              /\ Len(batches[n]) <= batch_size

C1_Witness ==
    /\ pc = "done" /\ kind = "make_batches"
    /\ batch_size = 2
    /\ Len(values) = 3
    /\ Len(batches) = 2
    /\ Len(batches[2]) = 1

\* C2: for batch_size <= 0 make_batches fails with an invalid-argument error
\* and never returns a list of batches.
C2_NonPositiveSizeRaises ==
    (pc = "done" /\ kind = "make_batches" /\ batch_size <= 0) =>
        raised = "ValueError"

----------------------------------------------------------------------------
\* syntheticaccessibility.py: parse_synthetic_accessibility
\* Floats are written as strings ("2.5"); the default of the code is "1.0".

Absent == "absent"

\* The dict holding the keys of `choice` whose value is not Absent
Present(choice) == [k \in {j \in DOMAIN choice : choice[j] # Absent} |-> choice[k]]

ManifoldSyntheticAccessibility(score, num_steps, warning, url) ==
    [score |-> score, num_steps |-> num_steps, warning |-> warning, url |-> url]

\* the two shapes tested in the other order: `score` before `fastSAScore`
parse_synthetic_accessibility_swapped(e) ==
    LET num_steps == Get(e, "minNumSteps", None)
        warning == Get(e, "SAAlertLevel", None)
    IN  IF "score" \in DOMAIN e
        THEN [raised |-> NoExc, message |-> None,
              value |-> ManifoldSyntheticAccessibility(
                            Get(e, "score", "1.0"), num_steps, warning,
                            Get(e, "manifoldLink", None))]
        ELSE IF "fastSAScore" \in DOMAIN e
        THEN [raised |-> NoExc, message |-> None,
              value |-> ManifoldSyntheticAccessibility(
                            Get(e, "fastSAScore", "1.0"), num_steps, warning,
                            Get(e, "SAAlertImgURL", None))]
        ELSE [raised |-> "ValueError",
              message |-> "Could not parse synthetic accessibility.",
              value |-> NoneRec]

parse_synthetic_accessibility(e) ==
    LET num_steps == Get(e, "minNumSteps", None)
        warning == Get(e, "SAAlertLevel", None)
    IN  IF "fastSAScore" \in DOMAIN e
        THEN [raised |-> NoExc, message |-> None,
              value |-> ManifoldSyntheticAccessibility(
                            Get(e, "fastSAScore", "1.0"), num_steps, warning,
                            Get(e, "SAAlertImgURL", None))]
        ELSE IF "score" \in DOMAIN e
        THEN [raised |-> NoExc, message |-> None,
              value |-> ManifoldSyntheticAccessibility(
                            Get(e, "score", "1.0"), num_steps, warning,
                            Get(e, "manifoldLink", None))]
        ELSE [raised |-> "ValueError",
              message |-> "Could not parse synthetic accessibility.",
              value |-> NoneRec]

\* The records a service can answer with: every key present or not, the two
\* score keys also present with a null value
SAEntries ==
    {Present(c) : c \in [fastSAScore : {Absent, None, "1.0", "2.5"},
                         score : {Absent, None, "1.0", "3.5"},
                         SAAlertImgURL : {Absent, "alert.svg"},
                         manifoldLink : {Absent, "manifold/link"},
                         minNumSteps : {Absent, "3"},
                         SAAlertLevel : {Absent, "high"}]}

InitParseSA ==
    /\ pc = "start"
    /\ kind = "parse_synthetic_accessibility"
    /\ sa_entry \in SAEntries
    /\ sa_result = NoneRec
    /\ raised = NoExc
    /\ message = None
    /\ values = Unused /\ batch_size = Unused /\ batches = Unused
    /\ items = Unused /\ entries = Unused
    /\ smiles = Unused /\ response = Unused /\ responses = Unused
    /\ sent = Unused /\ parsed = Unused /\ results = Unused /\ floats = Unused

CallParseSA ==
    /\ pc = "start"
    /\ kind = "parse_synthetic_accessibility"
    /\ LET r == parse_synthetic_accessibility(sa_entry)
       IN  /\ raised' = r.raised
           /\ message' = r.message
           /\ sa_result' = r.value
    /\ pc' = "done"
    /\ UNCHANGED <<values, batch_size, batches, sa_entry, items, entries, kind,
                   smiles, response, responses, sent, parsed, results, floats>>

NextParseSA == CallParseSA

SpecParseSA == InitParseSA /\ [][NextParseSA]_vars

ParseSADone == pc = "done" /\ kind = "parse_synthetic_accessibility"

\* C8: parse_synthetic_accessibility decides by key presence: with
\* `fastSAScore` a key the score is its value and the url is `SAAlertImgURL`
\* (manifoldLink ignored); else with `score` a key the score is its value and
\* the url is `manifoldLink`; with neither the parse fails and no record is
\* produced.  num_steps and warning come from `minNumSteps` and `SAAlertLevel`.
\* A key that is missing leaves its field None.
C8_DisambiguationByKey ==
    ParseSADone =>
        LET e == sa_entry
            opt(k) == IF k \in DOMAIN e THEN e[k] ELSE None
        IN  /\ "fastSAScore" \in DOMAIN e =>
                  /\ raised = NoExc
                  /\ sa_result.score = e["fastSAScore"]
                  /\ sa_result.url = opt("SAAlertImgURL")
            /\ ("fastSAScore" \notin DOMAIN e /\ "score" \in DOMAIN e) =>
                  /\ raised = NoExc
                  /\ sa_result.score = e["score"]
                  /\ sa_result.url = opt("manifoldLink")
            /\ ("fastSAScore" \notin DOMAIN e /\ "score" \notin DOMAIN e) =>
                  /\ raised = "ValueError"
                  /\ sa_result = NoneRec
            /\ raised = NoExc =>
                  /\ sa_result.num_steps = opt("minNumSteps")
                  /\ sa_result.warning = opt("SAAlertLevel")

C8_Witness ==
    /\ ParseSADone
    /\ {"fastSAScore", "score", "manifoldLink", "SAAlertImgURL"} \subseteq DOMAIN sa_entry
    /\ sa_entry["fastSAScore"] = "2.5"
    /\ sa_entry["score"] = "3.5"
    /\ raised = NoExc
    /\ sa_result.score = "2.5"
    /\ sa_result.url = "alert.svg"

\* C10: every record parse_synthetic_accessibility returns carries a non-null
\* score; a detected key holding null gives the default 1.0.
C10_ScoreNeverNull ==
    (ParseSADone /\ raised = NoExc) =>
        /\ sa_result.score # None
        /\ LET k == IF "fastSAScore" \in DOMAIN sa_entry THEN "fastSAScore" ELSE "score"
           IN  sa_entry[k] = None => sa_result.score = "1.0"

----------------------------------------------------------------------------
\* exactsearch.py: the catalog parsers
\* JSON true and false are the strings "true" and "false"; a JSON number is
\* one of Numbers, written as a string.

Numbers == {"2.0", "0.5"}

\* float(v): TypeError for None, ValueError for a string that is no number
PyFloat(v) ==
    IF v = None THEN [raised |-> "TypeError", value |-> None]
    ELSE IF v \in Numbers THEN [raised |-> NoExc, value |-> v]
    ELSE [raised |-> "ValueError", value |-> None]

\* bool(v) never fails
PyBool(v) == v \notin {None, "false", ""}

Merge(a, b) == [k \in DOMAIN a \cup DOMAIN b |-> IF k \in DOMAIN a THEN a[k] ELSE b[k]]

ManifoldSupplierPurchaseInfo(lead_time_weeks, price_information, is_building_block, is_screening) ==
    [lead_time_weeks |-> lead_time_weeks, price_information |-> price_information,
     is_building_block |-> is_building_block, is_screening |-> is_screening]

ManifoldInchiKeyMatches(is_exact, parent, connectivity) ==
    [is_exact |-> is_exact, parent |-> parent, connectivity |-> connectivity]

ManifoldCatalogEntry(supplier, id, smi, link, purchase_info, match) ==
    [supplier |-> supplier, id |-> id, smiles |-> smi, link |-> link,
     purchase_info |-> purchase_info, match |-> match]

\* The try block reads the four keys in order; only KeyError is caught, so a
\* lead time float() rejects leaves the call as TypeError or ValueError.
parse_supplier_purchase_information(item) ==
    IF "scrLeadTimeWeeks" \notin DOMAIN item
    THEN [raised |-> NoExc, message |-> None, value |-> NoneRec]
    ELSE LET lead_time == PyFloat(item["scrLeadTimeWeeks"])
         IN  IF lead_time.raised # NoExc
             THEN [raised |-> lead_time.raised, message |-> "scrLeadTimeWeeks",
                   value |-> NoneRec]
             ELSE IF \/ "scrPriceRange" \notin DOMAIN item
                     \/ "isBuildingBlock" \notin DOMAIN item
                     \/ "isScreening" \notin DOMAIN item
             THEN [raised |-> NoExc, message |-> None, value |-> NoneRec]
             ELSE [raised |-> NoExc, message |-> None,
                   value |-> ManifoldSupplierPurchaseInfo(
                                 lead_time.value, item["scrPriceRange"],
                                 PyBool(item["isBuildingBlock"]),
                                 PyBool(item["isScreening"]))]

\* No try block: the first missing key leaves the call as KeyError
_parse_inchi_matches(value) ==
    IF "exact" \notin DOMAIN value
    THEN [raised |-> "KeyError", message |-> "exact", value |-> NoneRec]
    ELSE IF "parent" \notin DOMAIN value
    THEN [raised |-> "KeyError", message |-> "parent", value |-> NoneRec]
    ELSE IF "connectivity" \notin DOMAIN value
    THEN [raised |-> "KeyError", message |-> "connectivity", value |-> NoneRec]
    ELSE [raised |-> NoExc, message |-> None,
          value |-> ManifoldInchiKeyMatches(PyBool(value["exact"]),
                                            PyBool(value["parent"]),
                                            PyBool(value["connectivity"]))]

NoMatches == [raised |-> NoExc, message |-> None, value |-> NoneRec]

\* One iteration of the loop of _parse_catalog_entries
parse_catalog_item(item) ==
    LET catalog_name == Get(item, "catalogName", "N/A")
        catalog_id == Get(item, "catalogId", "N/A")
        link == Get(item, "link", "N/A")
        smi == Get(item, "smiles", "")
        matches == IF Get(item, "inchikeyMatches", NoneRec) # NoneRec
                   THEN _parse_inchi_matches(item["inchikeyMatches"])
                   ELSE NoMatches
        purchase_information ==
                   IF Get(item, "purchaseInfo", NoneRec) # NoneRec
                   THEN parse_supplier_purchase_information(item["purchaseInfo"])
                   ELSE NoMatches
    IN  IF matches.raised # NoExc
        THEN matches
        ELSE IF purchase_information.raised # NoExc
        THEN purchase_information
        ELSE [raised |-> NoExc, message |-> None,
              value |-> ManifoldCatalogEntry(catalog_name, catalog_id, smi, link,
                                             purchase_information.value,
                                             matches.value)]

RECURSIVE parse_catalog_loop(_, _)
parse_catalog_loop(vals, acc) ==
    IF vals = << >>
    THEN [raised |-> NoExc, message |-> None, value |-> acc]
    ELSE LET e == parse_catalog_item(Head(vals))
         IN  IF e.raised # NoExc
             THEN [raised |-> e.raised, message |-> e.message, value |-> << >>]
             ELSE parse_catalog_loop(Tail(vals), Append(acc, e.value))

_parse_catalog_entries(vals) == parse_catalog_loop(vals, << >>)

SimpleParts ==
    {Present(c) : c \in [catalogName : {Absent, "enamine"},
                         catalogId : {Absent, "Z1"},
                         link : {Absent, "http://e"},
                         smiles : {Absent, "CCO"}]}

InchiDicts ==
    {Present(c) : c \in [exact : {Absent, "true"},
                         parent : {Absent, "false"},
                         connectivity : {Absent, "true"}]}

PurchaseDicts ==
    {Present(c) : c \in [scrLeadTimeWeeks : {Absent, "2.0", None, "n/a"},
                         scrPriceRange : {Absent, "$"},
                         isBuildingBlock : {Absent, "true"},
                         isScreening : {Absent, "false"}]}

InchiParts == {EmptyDict} \cup {[inchikeyMatches |-> v] : v \in {NoneRec} \cup InchiDicts}

PurchaseParts == {EmptyDict} \cup {[purchaseInfo |-> v] : v \in {NoneRec} \cup PurchaseDicts}

FullSimple == [catalogName |-> "enamine", catalogId |-> "Z1", link |-> "http://e",
               smiles |-> "CCO"]

GoodInchi == [exact |-> "true", parent |-> "false", connectivity |-> "true"]

FullPurchase == [scrLeadTimeWeeks |-> "2.0", scrPriceRange |-> "$",
                 isBuildingBlock |-> "true", isScreening |-> "false"]

\* Catalog items: every subset of the four plain keys; with all four present
\* every shape of one sub-record, and both sub-records together with each
\* of them sound or defective
CatalogItems ==
    SimpleParts
    \cup {Merge(FullSimple, i) : i \in InchiParts}
    \cup {Merge(FullSimple, q) : q \in PurchaseParts}
    \cup {Merge(Merge(FullSimple, [inchikeyMatches |-> i]), [purchaseInfo |-> q]) :
              i \in {GoodInchi, [exact |-> "true"]},
              q \in {FullPurchase, [scrLeadTimeWeeks |-> None], [scrPriceRange |-> "$"]}}

InitCatalog ==
    /\ pc = "start"
    /\ kind = "_parse_catalog_entries"
    /\ items \in SeqsUpTo(CatalogItems, MaxItems)
    /\ entries = << >>
    /\ raised = NoExc
    /\ message = None
    /\ values = Unused /\ batch_size = Unused /\ batches = Unused
    /\ sa_entry = Unused /\ sa_result = Unused
    /\ smiles = Unused /\ response = Unused /\ responses = Unused
    /\ sent = Unused /\ parsed = Unused /\ results = Unused /\ floats = Unused

CallParseCatalog ==
    /\ pc = "start"
    /\ kind = "_parse_catalog_entries"
    /\ LET r == _parse_catalog_entries(items)
       IN  /\ raised' = r.raised
           /\ message' = r.message
           /\ entries' = r.value
    /\ pc' = "done"
    /\ UNCHANGED <<values, batch_size, batches, sa_entry, sa_result, items, kind,
                   smiles, response, responses, sent, parsed, results, floats>>

NextCatalog == CallParseCatalog

SpecCatalog == InitCatalog /\ [][NextCatalog]_vars

InchiKeys == {"exact", "parent", "connectivity"}
PurchaseKeys == {"scrLeadTimeWeeks", "scrPriceRange", "isBuildingBlock", "isScreening"}

BadInchi(item) ==
    /\ "inchikeyMatches" \in DOMAIN item
    /\ item["inchikeyMatches"] # NoneRec
    /\ ~(InchiKeys \subseteq DOMAIN item["inchikeyMatches"])

NoPurchase(item) ==
    \/ "purchaseInfo" \notin DOMAIN item
    \/ item["purchaseInfo"] = NoneRec
    \/ ~(PurchaseKeys \subseteq DOMAIN item["purchaseInfo"])

\* C9: _parse_catalog_entries fails (with a key error) if and only if some
\* item has a non-null `inchikeyMatches` lacking one of its three keys;
\* otherwise it returns one entry per item, in order, whose purchase_info is
\* absent exactly when `purchaseInfo` is missing, null or lacks one of its
\* four keys, and whose supplier, id, link and smiles take their defaults
\* when the keys are missing.
C9_OnlyInchiFails ==
    (pc = "done" /\ kind = "_parse_catalog_entries") =>
        /\ (raised # NoExc) <=> (\E n \in 1..Len(items) : BadInchi(items[n]))
        /\ raised # NoExc => raised = "KeyError"
        /\ raised = NoExc =>
              /\ Len(entries) = Len(items)
              /\ \A n \in 1..Len(items) :
                    /\ (entries[n].purchase_info = NoneRec) <=> NoPurchase(items[n])
                    /\ "catalogName" \notin DOMAIN items[n] => entries[n].supplier = "N/A"
                    /\ "catalogId" \notin DOMAIN items[n] => entries[n].id = "N/A"
                    /\ "link" \notin DOMAIN items[n] => entries[n].link = "N/A"
                    /\ "smiles" \notin DOMAIN items[n] => entries[n].smiles = ""

----------------------------------------------------------------------------
\* The single-request wrappers: ExactSearch (exactsearch.py) and
\* SyntheticAccessibilityFast / SyntheticAccessibilityRetroSynthesis
\* (syntheticaccessibility.py).  A response is a status code and a body; the
\* body is a dict, or NotJSON when response.json() raises JSONDecodeError.

NotJSON == [undecodable |-> TRUE]

StatusCodes == {200, 422, 429, 500}

SingleKinds == {"ExactSearch", "SyntheticAccessibilityFast",
                "SyntheticAccessibilityRetroSynthesis"}

SAKinds == {"SyntheticAccessibilityFast", "SyntheticAccessibilityRetroSynthesis"}

api_endpoint(endpoint) == <<"https://api.postera.ai/api/v1/", endpoint>>

URL(k) ==
    CASE k = "ExactSearch" -> "exact/"
      [] k = "ExactSearchBatch" -> "exact/batch/"
      [] k = "SyntheticAccessibilityFast" -> "synthetic-accessibility/fast-score/"
      [] k = "SyntheticAccessibilityRetroSynthesis" -> "synthetic-accessibility/retrosynthesis/"
      [] k = "SyntheticAccessibilityFastBatch" -> "synthetic-accessibility/fast-score/batch/"
      [] k = "SyntheticAccessibilityRetroSynthesisBatch" ->
             "synthetic-accessibility/retrosynthesis/batch/"

\* The request a single wrapper posts for the SMILES string smi (`alerts`
\* at its default False)
SingleRequest(k, smi) ==
    [url |-> api_endpoint(URL(k)),
     json |-> CASE k = "ExactSearch" ->
                       [smiles |-> smi, queryThirdPartyServices |-> FALSE]
                [] k = "SyntheticAccessibilityFast" ->
                       [smiles |-> smi, getAlertSvg |-> FALSE]
                [] k = "SyntheticAccessibilityRetroSynthesis" ->
                       [smiles |-> smi]]

\* ExactSearch.__init__, from response.status_code on
ExactSearch_classify(resp) ==
    IF resp.body = NotJSON
    THEN [raised |-> NoExc, message |-> None, value |-> << >>]
    ELSE IF resp.status_code = 422
    THEN IF "error" \in DOMAIN resp.body
         THEN [raised |-> "InvalidSmilesError", message |-> resp.body["error"],
               value |-> << >>]
         ELSE [raised |-> "KeyError", message |-> "error", value |-> << >>]
    ELSE IF resp.status_code = 500
    THEN [raised |-> NoExc, message |-> None, value |-> << >>]
    ELSE _parse_catalog_entries(Get(resp.body, "results", << >>))

\* SyntheticAccessibility._parse_response with the `detail` test moved in
\* front of the status tests
SyntheticAccessibility_parse_response_detail_first(resp) ==
    IF resp.body = NotJSON
    THEN [raised |-> NoExc, message |-> None, value |-> NoneRec]
    ELSE IF "detail" \in DOMAIN resp.body
    THEN [raised |-> "TooManyRequestsError", message |-> resp.body["detail"],
          value |-> NoneRec]
    ELSE IF resp.status_code = 500
    THEN [raised |-> NoExc, message |-> None, value |-> NoneRec]
    ELSE IF resp.status_code = 422
    THEN IF "error" \in DOMAIN resp.body
         THEN [raised |-> "InvalidSmilesError", message |-> resp.body["error"],
               value |-> NoneRec]
         ELSE [raised |-> "KeyError", message |-> "error", value |-> NoneRec]
    ELSE parse_synthetic_accessibility(resp.body)

\* SyntheticAccessibility._parse_response
SyntheticAccessibility_parse_response(resp) ==
    IF resp.body = NotJSON
    THEN [raised |-> NoExc, message |-> None, value |-> NoneRec]
    ELSE IF resp.status_code = 500
    THEN [raised |-> NoExc, message |-> None, value |-> NoneRec]
    ELSE IF resp.status_code = 422
    THEN IF "error" \in DOMAIN resp.body
         THEN [raised |-> "InvalidSmilesError", message |-> resp.body["error"],
               value |-> NoneRec]
         ELSE [raised |-> "KeyError", message |-> "error", value |-> NoneRec]
    ELSE IF "detail" \in DOMAIN resp.body
    THEN [raised |-> "TooManyRequestsError", message |-> resp.body["detail"],
          value |-> NoneRec]
    ELSE parse_synthetic_accessibility(resp.body)

\* SyntheticAccessibility.as_floats
as_floats(res) == IF res = NoneRec THEN "1.0" ELSE res.score

ErrorParts ==
    {Present(c) : c \in [error : {Absent, "bad smiles"}, detail : {Absent, "throttled"}]}

GoodItem == Merge(FullSimple, [inchikeyMatches |-> [exact |-> "true", parent |-> "true",
                                                    connectivity |-> "true"]])

ResultLists ==
    {<< >>, <<GoodItem>>, <<EmptyDict, GoodItem>>,
     <<Merge(FullSimple, [inchikeyMatches |-> [exact |-> "true"]])>>}

\* Bodies an exact search can be answered with
ExactBodies ==
    {NotJSON} \cup
    {Merge(e, r) : e \in ErrorParts,
                   r \in {EmptyDict} \cup {[results |-> l] : l \in ResultLists}}

\* Bodies a synthetic-accessibility request can be answered with
SABodies ==
    {NotJSON} \cup
    {Present(c) : c \in [error : {Absent, "bad smiles"},
                         detail : {Absent, "throttled"},
                         fastSAScore : {Absent, None, "2.5"},
                         score : {Absent, "3.5"},
                         manifoldLink : {Absent, "manifold/link"}]}

Bodies(k) == IF k = "ExactSearch" THEN ExactBodies ELSE SABodies

InitSingle ==
    /\ pc = "start"
    /\ kind \in SingleKinds
    /\ smiles \in Smiles
    /\ sent = << >>
    /\ response = NotJSON
    /\ results = IF kind = "ExactSearch" THEN << >> ELSE NoneRec
    /\ raised = NoExc
    /\ message = None
    /\ floats = None
    /\ values = Unused /\ batch_size = Unused /\ batches = Unused
    /\ sa_entry = Unused /\ sa_result = Unused
    /\ items = Unused /\ entries = Unused
    /\ responses = Unused /\ parsed = Unused

\* requests.post: the request goes out and the service answers
Post ==
    /\ pc = "start"
    /\ kind \in SingleKinds
    /\ sent' = Append(sent, SingleRequest(kind, smiles))
    /\ \E status_code \in StatusCodes, body \in Bodies(kind) :
          response' = [status_code |-> status_code, body |-> body]
    /\ pc' = "responded"
    /\ UNCHANGED <<raised, message, values, batch_size, batches, sa_entry, sa_result,
                   items, entries, kind, smiles, responses, parsed, results, floats>>

\* The rest of the constructor: the response is classified
ParseResponse ==
    /\ pc = "responded"
    /\ kind \in SingleKinds
    /\ LET r == IF kind = "ExactSearch"
                THEN ExactSearch_classify(response)
                ELSE SyntheticAccessibility_parse_response(response)
       IN  /\ raised' = r.raised
           /\ message' = r.message
           /\ results' = r.value
           /\ pc' = IF r.raised = NoExc THEN "constructed" ELSE "raised"
    /\ UNCHANGED <<values, batch_size, batches, sa_entry, sa_result, items, entries,
                   kind, smiles, response, responses, sent, parsed, floats>>

AsFloats ==
    /\ pc = "constructed"
    /\ kind \in SAKinds
    /\ floats' = as_floats(results)
    /\ pc' = "done"
    /\ UNCHANGED <<raised, message, values, batch_size, batches, sa_entry, sa_result,
                   items, entries, kind, smiles, response, responses, sent, parsed,
                   results>>

NextSingle == Post \/ ParseResponse \/ AsFloats

SpecSingle == InitSingle /\ [][NextSingle]_vars

Classified == kind \in SingleKinds /\ pc \in {"constructed", "raised", "done"}

\* C3: in every single-request wrapper a decoded body with a `detail` field
\* and a status other than 422 and 500 makes construction raise
\* TooManyRequestsError carrying `detail`.
C3_DetailAlwaysRateLimited ==
    (/\ Classified
     /\ response.body # NotJSON
     /\ "detail" \in DOMAIN response.body
     /\ response.status_code \notin {422, 500}) =>
        /\ raised = "TooManyRequestsError"
        /\ message = response.body["detail"]

\* C5: in the single-request wrappers status 422 with an `error` field in the
\* decoded body raises InvalidSmilesError carrying that field, whatever other
\* fields the body holds; nothing is parsed as a result.
C5_InvalidSmilesFirst ==
    (/\ Classified
     /\ response.status_code = 422
     /\ response.body # NotJSON
     /\ "error" \in DOMAIN response.body) =>
        /\ pc = "raised"
        /\ raised = "InvalidSmilesError"
        /\ message = response.body["error"]
        /\ results = IF kind = "ExactSearch" THEN << >> ELSE NoneRec

C5_Witness ==
    /\ kind = "SyntheticAccessibilityFast"
    /\ pc = "raised"
    /\ response.status_code = 422
    /\ response.body # NotJSON
    /\ {"error", "detail", "fastSAScore"} \subseteq DOMAIN response.body
    /\ raised = "InvalidSmilesError"
    /\ message = "bad smiles"

----------------------------------------------------------------------------
\* The batched wrappers: ExactSearchBatch (exactsearch.py) and
\* SyntheticAccessibilityFastBatch / SyntheticAccessibilityRetroSynthesisBatch
\* (syntheticaccessibility.py).
\* The i-th SMILES of the input list is written i.  `responses` logs every
\* response whose body decoded, with its status code; the code keeps the
\* decoded bodies only.

BatchKinds == {"ExactSearchBatch", "SyntheticAccessibilityFastBatch",
               "SyntheticAccessibilityRetroSynthesisBatch"}

SABatchKinds == {"SyntheticAccessibilityFastBatch",
                 "SyntheticAccessibilityRetroSynthesisBatch"}

MAX_BATCH_SIZE(k) ==
    CASE k = "ExactSearchBatch" -> 1000
      [] k = "SyntheticAccessibilityFastBatch" -> 100
      [] k = "SyntheticAccessibilityRetroSynthesisBatch" -> 10

\* The request a batched wrapper posts for one batch (`alerts` at its
\* default False)
BatchRequest(k, batch) ==
    [url |-> api_endpoint(URL(k)),
     smilesList |-> batch,
     getAlertSvg |-> IF k = "SyntheticAccessibilityFastBatch" THEN "false" ELSE Absent]

\* parse_synthetic_accessibilities that leaves out the items without SAData
RECURSIVE parse_synthetic_accessibilities_skip(_)
parse_synthetic_accessibilities_skip(sa_entries) ==
    IF sa_entries = << >>
    THEN [raised |-> NoExc, message |-> None, value |-> << >>]
    ELSE LET sa_data == Head(sa_entries)
             rest == parse_synthetic_accessibilities_skip(Tail(sa_entries))
         IN  IF "SAData" \notin DOMAIN sa_data
             THEN rest
             ELSE LET one == parse_synthetic_accessibility(sa_data["SAData"])
                  IN  IF one.raised # NoExc
                      THEN [raised |-> one.raised, message |-> one.message,
                            value |-> << >>]
                      ELSE IF rest.raised # NoExc THEN rest
                      ELSE [raised |-> NoExc, message |-> None,
                            value |-> <<one.value>> \o rest.value]

RECURSIVE parse_sa_loop(_, _)
parse_sa_loop(sa_entries, acc) ==
    IF sa_entries = << >>
    THEN [raised |-> NoExc, message |-> None, value |-> acc]
    ELSE LET sa_data == Head(sa_entries)
         IN  IF "SAData" \notin DOMAIN sa_data
             THEN parse_sa_loop(Tail(sa_entries), Append(acc, NoneRec))
             ELSE LET one == parse_synthetic_accessibility(sa_data["SAData"])
                  IN  IF one.raised # NoExc
                      THEN [raised |-> one.raised, message |-> one.message,
                            value |-> << >>]
                      ELSE parse_sa_loop(Tail(sa_entries), Append(acc, one.value))

parse_synthetic_accessibilities(sa_entries) == parse_sa_loop(sa_entries, << >>)

\* One iteration of SyntheticAccessibilityBatch._parse_response: the list to
\* extend self._results with, or the exception
SyntheticAccessibilityBatch_parse_one(body) ==
    IF "results" \notin DOMAIN body
    THEN IF "detail" \in DOMAIN body
         THEN [raised |-> "TooManyRequestsError", message |-> body["detail"],
               value |-> << >>]
         ELSE [raised |-> "KeyError", message |-> None, value |-> << >>]
    ELSE parse_synthetic_accessibilities(body["results"])

\* The inner loop of ExactSearchBatch.__init__ over return_values["results"]:
\* self._results grows item by item until an item raises
RECURSIVE exact_batch_items(_, _)
exact_batch_items(its, acc) ==
    IF its = << >>
    THEN [raised |-> NoExc, message |-> None, value |-> acc]
    ELSE LET item == Head(its)
         IN  IF "error" \in DOMAIN item
             THEN exact_batch_items(Tail(its), Append(acc, << >>))
             ELSE IF "catalogEntries" \notin DOMAIN item
             THEN [raised |-> "KeyError", message |-> "catalogEntries", value |-> acc]
             ELSE LET one == _parse_catalog_entries(item["catalogEntries"])
                  IN  IF one.raised # NoExc
                      THEN [raised |-> one.raised, message |-> one.message,
                            value |-> acc]
                      ELSE exact_batch_items(Tail(its), Append(acc, one.value))

\* The body of the loop of ExactSearchBatch.__init__ after response.json()
ExactSearchBatch_process(body, acc) ==
    IF "results" \notin DOMAIN body
    THEN [raised |-> "KeyError", message |-> "results", value |-> acc]
    ELSE exact_batch_items(body["results"], acc)

\* SyntheticAccessibilityBatch.as_floats
batch_as_floats(res) ==
    [n \in 1..Len(res) |-> IF res[n] # NoneRec THEN res[n].score ELSE "1.0"]

FastItem == [smiles |-> "C", SAData |-> [fastSAScore |-> "2.5"]]
ScoreItem == [smiles |-> "C", SAData |-> [score |-> "3.5", manifoldLink |-> "manifold/link"]]
NoDataItem == [smiles |-> "C"]
BadDataItem == [smiles |-> "C", SAData |-> [SAAlertLevel |-> "high"]]

\* One item per SMILES of a full batch, the second one without SAData
FullBatchList(k) ==
    [i \in 1..MAX_BATCH_SIZE(k) |-> IF i = 2 THEN NoDataItem ELSE FastItem]

\* The full-batch answer is kept to the endpoint with the smallest batches
SABatchResultLists(k) ==
    {<< >>, <<FastItem>>, <<FastItem, NoDataItem>>, <<ScoreItem>>, <<BadDataItem>>}
    \cup (IF k = "SyntheticAccessibilityRetroSynthesisBatch"
          THEN {FullBatchList(k)} ELSE {})

ErrorItem == [smiles |-> "C", error |-> "bad smiles"]
EntriesItem == [smiles |-> "C", catalogEntries |-> <<GoodItem>>]
BadEntriesItem ==
    [smiles |-> "C",
     catalogEntries |-> <<Merge(FullSimple, [inchikeyMatches |-> [exact |-> "true"]])>>]

ExactBatchResultLists ==
    {<< >>, <<ErrorItem>>, <<EntriesItem, ErrorItem>>, <<NoDataItem>>, <<BadEntriesItem>>}

BatchBodies(k) ==
    LET lists == IF k = "ExactSearchBatch" THEN ExactBatchResultLists
                 ELSE SABatchResultLists(k)
    IN  {NotJSON, EmptyDict, [detail |-> "throttled"]}
        \cup {[results |-> l] : l \in lists}
        \cup {[detail |-> "throttled", results |-> << >>]}

BatchStatusCodes == {200, 500}

\* Input lists that fill up to MaxBatches batches, exactly or with one over
InputLists(k) ==
    {[i \in 1..(b * MAX_BATCH_SIZE(k) + r) |-> i] : b \in 0..(MaxBatches - 1), r \in {0, 1}}

InitBatch ==
    /\ pc = "start"
    /\ kind \in BatchKinds
    /\ smiles \in InputLists(kind)
    /\ batches = << >>
    /\ sent = << >>
    /\ response = NotJSON
    /\ responses = << >>
    /\ parsed = 0
    /\ results = << >>
    /\ raised = NoExc
    /\ message = None
    /\ floats = << >>
    /\ values = Unused /\ batch_size = Unused
    /\ sa_entry = Unused /\ sa_result = Unused
    /\ items = Unused /\ entries = Unused

\* The head of the constructors: self._results = [] and the call of make_batches
BatchBegin ==
    /\ pc = "start"
    /\ kind \in BatchKinds
    /\ batches' = make_batches(smiles, MAX_BATCH_SIZE(kind)).batches
    /\ results' = << >>
    /\ pc' = "requests"
    /\ UNCHANGED <<raised, message, values, batch_size, sa_entry, sa_result, items,
                   entries, kind, smiles, response, responses, sent, parsed, floats>>

\* One iteration of `for batch in batches` of ExactSearchBatch.__init__
ExactBatchIteration ==
    /\ pc = "requests"
    /\ kind = "ExactSearchBatch"
    /\ Len(sent) < Len(batches)
    /\ sent' = Append(sent, BatchRequest(kind, batches[Len(sent) + 1]))
    /\ \E status_code \in BatchStatusCodes, body \in BatchBodies(kind) :
          /\ response' = [status_code |-> status_code, body |-> body]
          /\ IF body = NotJSON
             THEN /\ raised' = "JSONDecodeError"
                  /\ message' = None
                  /\ pc' = "raised"
                  /\ UNCHANGED <<responses, results>>
             ELSE LET r == ExactSearchBatch_process(body, results)
                  IN  /\ responses' = Append(responses, response')
                      /\ results' = r.value
                      /\ raised' = r.raised
                      /\ message' = r.message
                      /\ pc' = IF r.raised = NoExc THEN "requests" ELSE "raised"
    /\ UNCHANGED <<values, batch_size, batches, sa_entry, sa_result, items, entries,
                   kind, smiles, parsed, floats>>

\* The loop of ExactSearchBatch.__init__ runs out of batches
ExactBatchReturn ==
    /\ pc = "requests"
    /\ kind = "ExactSearchBatch"
    /\ Len(sent) = Len(batches)
    /\ pc' = "constructed"
    /\ UNCHANGED <<raised, message, values, batch_size, batches, sa_entry, sa_result,
                   items, entries, kind, smiles, response, responses, sent, parsed,
                   results, floats>>

\* One iteration of the loop of SyntheticAccessibilityBatch._setup_requests
SetupRequestsIteration ==
    /\ pc = "requests"
    /\ kind \in SABatchKinds
    /\ Len(sent) < Len(batches)
    /\ sent' = Append(sent, BatchRequest(kind, batches[Len(sent) + 1]))
    /\ \E status_code \in BatchStatusCodes, body \in BatchBodies(kind) :
          /\ response' = [status_code |-> status_code, body |-> body]
          /\ IF body = NotJSON
             THEN /\ raised' = "JSONDecodeError"
                  /\ message' = None
                  /\ pc' = "raised"
                  /\ UNCHANGED responses
             ELSE /\ responses' = Append(responses, response')
                  /\ UNCHANGED <<raised, message, pc>>
    /\ UNCHANGED <<values, batch_size, batches, sa_entry, sa_result, items, entries,
                   kind, smiles, parsed, results, floats>>

\* _setup_requests returns the responses and _parse_response starts
SetupRequestsReturn ==
    /\ pc = "requests"
    /\ kind \in SABatchKinds
    /\ Len(sent) = Len(batches)
    /\ pc' = "parse"
    /\ UNCHANGED <<raised, message, values, batch_size, batches, sa_entry, sa_result,
                   items, entries, kind, smiles, response, responses, sent, parsed,
                   results, floats>>

\* One iteration of the loop of SyntheticAccessibilityBatch._parse_response
ParseResponseIteration ==
    /\ pc = "parse"
    /\ kind \in SABatchKinds
    /\ parsed < Len(responses)
    /\ LET r == SyntheticAccessibilityBatch_parse_one(responses[parsed + 1].body)
       IN  IF r.raised # NoExc
           THEN /\ raised' = r.raised
                /\ message' = r.message
                /\ pc' = "raised"
                /\ UNCHANGED <<results, parsed>>
           ELSE /\ results' = results \o r.value
                /\ parsed' = parsed + 1
                /\ UNCHANGED <<raised, message, pc>>
    /\ UNCHANGED <<values, batch_size, batches, sa_entry, sa_result, items, entries,
                   kind, smiles, response, responses, sent, floats>>

\* _parse_response returns: the object is constructed
ParseResponseReturn ==
    /\ pc = "parse"
    /\ kind \in SABatchKinds
    /\ parsed = Len(responses)
    /\ pc' = "constructed"
    /\ UNCHANGED <<raised, message, values, batch_size, batches, sa_entry, sa_result,
                   items, entries, kind, smiles, response, responses, sent, parsed,
                   results, floats>>

BatchAsFloats ==
    /\ pc = "constructed"
    /\ kind \in SABatchKinds
    /\ floats' = batch_as_floats(results)
    /\ pc' = "done"
    /\ UNCHANGED <<raised, message, values, batch_size, batches, sa_entry, sa_result,
                   items, entries, kind, smiles, response, responses, sent, parsed,
                   results>>

NextBatch ==
    \/ BatchBegin
    \/ ExactBatchIteration
    \/ ExactBatchReturn
    \/ SetupRequestsIteration
    \/ SetupRequestsReturn
    \/ ParseResponseIteration
    \/ ParseResponseReturn
    \/ BatchAsFloats

SpecBatch == InitBatch /\ [][NextBatch]_vars

\* The response whose handling made the constructor raise
Culprit ==
    IF kind = "ExactSearchBatch" \/ raised = "JSONDecodeError"
    THEN response
    ELSE responses[parsed + 1]

\* C4: in every wrapper, single and batched, a response with status 500 or
\* with a body that is no JSON never makes construction raise; it degrades to
\* an empty or absent result.
C4_ServerFailureNeverRaises ==
    /\ (kind \in BatchKinds /\ pc = "raised") =>
          ~(Culprit.status_code = 500 \/ Culprit.body = NotJSON)
    /\ (Classified /\ (response.status_code = 500 \/ response.body = NotJSON)) =>
          /\ pc # "raised"
          /\ results = IF kind = "ExactSearch" THEN << >> ELSE NoneRec

\* Handling a decoded body raises
Failure(k, body) ==
    IF k = "ExactSearchBatch"
    THEN ExactSearchBatch_process(body, << >>).raised # NoExc
    ELSE SyntheticAccessibilityBatch_parse_one(body).raised # NoExc

\* C6: in every batched wrapper the batches are sent in input order, and no
\* batch is sent after a batch whose response is a failure.
C6_NoSendAfterFailure ==
    kind \in BatchKinds =>
        \A j \in 1..Len(sent) :
            /\ sent[j].smilesList = batches[j]
            /\ \A k \in 1..(j - 1) :
                  /\ k <= Len(responses)
                  /\ ~Failure(kind, responses[k].body)

\* The entries one response stands for: None where the item has no SAData
ExpectedOf(body) ==
    [i \in 1..Len(body["results"]) |->
        IF "SAData" \in DOMAIN body["results"][i]
        THEN parse_synthetic_accessibility(body["results"][i]["SAData"]).value
        ELSE NoneRec]

\* C7: for a SyntheticAccessibilityBatch whose every response has a `results`
\* list, result() is the concatenation in batch order, then item order, of one
\* entry per returned item, None exactly where the item has no `SAData`;
\* as_floats() has the same length, 1.0 at the None positions and the score
\* elsewhere; with one item returned per SMILES the output is as long as the
\* input.
C7_BatchResultsAligned ==
    (kind \in SABatchKinds /\ pc \in {"constructed", "done"}) =>
        /\ Len(responses) = Len(batches)
        /\ \A k \in 1..Len(responses) : "results" \in DOMAIN responses[k].body
        /\ results = Flatten([k \in 1..Len(responses) |-> ExpectedOf(responses[k].body)])
        /\ pc = "done" =>
              /\ Len(floats) = Len(results)
              /\ \A n \in 1..Len(results) :
                    floats[n] = IF results[n] = NoneRec THEN "1.0" ELSE results[n].score
        /\ (\A k \in 1..Len(responses) :
                Len(responses[k].body["results"]) = Len(batches[k])) =>
              Len(results) = Len(smiles)

C7_Witness ==
    /\ kind = "SyntheticAccessibilityRetroSynthesisBatch"
    /\ pc = "done"
    /\ Len(smiles) = 11
    /\ Len(responses) = 2
    /\ responses[1].body = [results |-> FullBatchList(kind)]
    /\ responses[2].body = [results |-> <<ScoreItem>>]
    /\ Len(results) = Len(smiles)
    /\ results[2] = NoneRec
    /\ floats[1] = "2.5" /\ floats[2] = "1.0" /\ floats[11] = "3.5"

====
